---- MODULE Spec2Model ----
(***************************************************************************)
(* A model of scripts/discover-apps.py: the keyword classifier, the slug   *)
(* generator, the three platform collectors, the ordering applied by       *)
(* discover_apps and the exports written by main.                          *)
(*                                                                         *)
(* Python strings are sequences of characters; a character is a one        *)
(* character TLA+ string, and the two non-ASCII letters used here are the  *)
(* atoms "U+00C9" and "U+00E9".  Python's None is the value None below for *)
(* optional strings and NoSignature for an optional AppSignature.          *)
(***************************************************************************)
EXTENDS Integers, Sequences, FiniteSets, TLC

(***************************************************************************)
(* Bounds of the model.                                                    *)
(***************************************************************************)
MaxTokens == 4
MaxArtifacts == 3

(***************************************************************************)
(* Characters.                                                             *)
(***************************************************************************)
\* The characters of the model in ascending code point order: printable
\* ASCII (32..126) without the backtick, then U+00C9
\* and U+00E9.
CodePointOrder ==
  <<
    " ", "!", "\"", "#", "$", "%", "&", "'", "(", ")", "*", "+", ",",
    "-", ".", "/", "0", "1", "2", "3", "4", "5", "6", "7", "8",
    "9", ":", ";", "<", "=", ">", "?", "@", "A", "B", "C", "D",
    "E", "F", "G", "H", "I", "J", "K", "L", "M", "N", "O", "P",
    "Q", "R", "S", "T", "U", "V", "W", "X", "Y", "Z", "[", "\\", "]",
    "^", "_", "a", "b", "c", "d", "e", "f", "g", "h", "i",
    "j", "k", "l", "m", "n", "o", "p", "q", "r", "s", "t", "u",
    "v", "w", "x", "y", "z", "{", "|", "}", "~",
    "U+00C9", "U+00E9"
  >>

\* str.lower() maps UpperCase[i] to LowerCase[i] and leaves the rest alone.
UpperCase ==
  <<"A", "B", "C", "D", "E", "F", "G", "H", "I", "J", "K", "L", "M",
    "N", "O", "P", "Q", "R", "S", "T", "U", "V", "W", "X", "Y", "Z", "U+00C9">>

LowerCase ==
  <<"a", "b", "c", "d", "e", "f", "g", "h", "i", "j", "k", "l", "m",
    "n", "o", "p", "q", "r", "s", "t", "u", "v", "w", "x", "y", "z", "U+00E9">>

CharSet == { CodePointOrder[i] : i \in 1..Len(CodePointOrder) }

\* Position in code point order: Python compares strings code point by code point.
OrdTable ==
  [c \in CharSet |->
     CHOOSE i \in 1..Len(CodePointOrder) : CodePointOrder[i] = c]

Ord(c) == OrdTable[c]

LowerChar(c) ==
  IF \E i \in 1..Len(UpperCase) : UpperCase[i] = c
  THEN LowerCase[CHOOSE i \in 1..Len(UpperCase) : UpperCase[i] = c]
  ELSE c

\* str.lower()
Lower(s) == [i \in 1..Len(s) |-> LowerChar(s[i])]

\* (k in s) for strings: k occurs in s as a contiguous substring.
Contains(s, k) ==
  \/ k = <<>>
  \/ \E i \in 1..(Len(s) - Len(k) + 1) :
       s[i] = k[1] /\ SubSeq(s, i, i + Len(k) - 1) = k

\* s.startswith(p)
StartsWith(s, p) == Len(s) >= Len(p) /\ SubSeq(s, 1, Len(p)) = p

\* s < t for Python strings.
RECURSIVE StrLess(_, _)
StrLess(s, t) ==
  IF t = <<>> THEN FALSE
  ELSE IF s = <<>> THEN TRUE
  ELSE IF Ord(Head(s)) # Ord(Head(t)) THEN Ord(Head(s)) < Ord(Head(t))
  ELSE StrLess(Tail(s), Tail(t))

\* The characters the class [a-z0-9] of generate_app_id's pattern matches.
IsLowerAlnum(c) ==
  \/ Ord("a") <= Ord(c) /\ Ord(c) <= Ord("z")
  \/ Ord("0") <= Ord(c) /\ Ord(c) <= Ord("9")

\* Python's None for an optional string; no string of characters equals it.
None == <<"None">>

\* Python truthiness of an optional string.
Truthy(v) == v # None /\ v # <<>>

(***************************************************************************)
(* Keyword lists.                                                          *)
(***************************************************************************)
AI_APP_KEYWORDS ==
  <<
    <<"c", "u", "r", "s", "o", "r">>,
    <<"c", "o", "p", "i", "l", "o", "t">>,
    <<"c", "o", "d", "y">>,
    <<"c", "l", "a", "u", "d", "e">>,
    <<"c", "h", "a", "t", "g", "p", "t">>,
    <<"o", "p", "e", "n", "a", "i">>,
    <<"a", "n", "t", "h", "r", "o", "p", "i", "c">>,
    <<"g", "p", "t">>,
    <<"g", "e", "m", "i", "n", "i">>,
    <<"b", "a", "r", "d">>,
    <<"p", "e", "r", "p", "l", "e", "x", "i", "t", "y">>,
    <<"p", "h", "i", "n", "d">>,
    <<"t", "a", "b", "n", "i", "n", "e">>,
    <<"k", "i", "t", "e">>,
    <<"w", "i", "n", "d", "s", "u", "r", "f">>,
    <<"c", "o", "n", "t", "i", "n", "u", "e">>,
    <<"a", "i", "d", "e", "r">>,
    <<"c", "o", "d", "e", "i", "u", "m">>,
    <<"s", "o", "u", "r", "c", "e", "g", "r", "a", "p", "h">>,
    <<"p", "i", "e", "c", "e", "s">>,
    <<"n", "o", "t", "i", "o", "n">>,
    <<"o", "b", "s", "i", "d", "i", "a", "n">>,
    <<"g", "r", "a", "m", "m", "a", "r", "l", "y">>,
    <<"j", "a", "s", "p", "e", "r">>,
    <<"c", "o", "p", "y", ".", "a", "i">>,
    <<"w", "r", "i", "t", "e", "s", "o", "n", "i", "c">>,
    <<"m", "i", "d", "j", "o", "u", "r", "n", "e", "y">>,
    <<"d", "a", "l", "l", "-", "e">>,
    <<"s", "t", "a", "b", "l", "e", "-", "d", "i", "f", "f", "u", "s", "i", "o", "n">>,
    <<"r", "u", "n", "w", "a", "y">>,
    <<"l", "u", "m", "a">>,
    <<"w", "h", "i", "s", "p", "e", "r">>,
    <<"o", "t", "t", "e", "r">>,
    <<"d", "e", "s", "c", "r", "i", "p", "t">>,
    <<"k", "r", "i", "s", "p">>,
    <<"r", "a", "y", "c", "a", "s", "t">>,
    <<"a", "l", "f", "r", "e", "d">>,
    <<"w", "a", "r", "p">>,
    <<"f", "i", "g">>,
    <<"z", "e", "d">>
  >>

AI_HOST_APPS ==
  <<
    <<"v", "i", "s", "u", "a", "l", " ", "s", "t", "u", "d", "i", "o", " ", "c", "o", "d", "e">>,
    <<"v", "s", "c", "o", "d", "e">>,
    <<"i", "n", "t", "e", "l", "l", "i", "j">>,
    <<"p", "y", "c", "h", "a", "r", "m">>,
    <<"w", "e", "b", "s", "t", "o", "r", "m">>,
    <<"g", "o", "l", "a", "n", "d">>,
    <<"r", "i", "d", "e", "r">>,
    <<"c", "l", "i", "o", "n">>,
    <<"d", "a", "t", "a", "g", "r", "i", "p">>,
    <<"r", "u", "b", "y", "m", "i", "n", "e">>,
    <<"p", "h", "p", "s", "t", "o", "r", "m">>,
    <<"a", "n", "d", "r", "o", "i", "d", " ", "s", "t", "u", "d", "i", "o">>,
    <<"x", "c", "o", "d", "e">>,
    <<"s", "u", "b", "l", "i", "m", "e", " ", "t", "e", "x", "t">>,
    <<"a", "t", "o", "m">>,
    <<"v", "i", "m">>,
    <<"n", "e", "o", "v", "i", "m">>,
    <<"e", "m", "a", "c", "s">>,
    <<"n", "o", "v", "a">>,
    <<"b", "b", "e", "d", "i", "t">>,
    <<"t", "e", "x", "t", "m", "a", "t", "e">>
  >>

(***************************************************************************)
(* is_ai_related and generate_app_id.                                      *)
(***************************************************************************)
\* The one element of a set of one element.  Once({ e(x) : x \in {v} }) is
\* e(v) with v evaluated a single time, however often e uses it.
Once(S) == CHOOSE x \in S : TRUE

\* The two loops of is_ai_related over the lower-cased name and bundle id.
MatchesAiKeyword(name_lower, bundle_lower) ==
  \E i \in 1..Len(AI_APP_KEYWORDS) :
    \/ Contains(name_lower, AI_APP_KEYWORDS[i])
    \/ Contains(bundle_lower, AI_APP_KEYWORDS[i])

MatchesAiHost(name_lower) ==
  \E i \in 1..Len(AI_HOST_APPS) : Contains(name_lower, AI_HOST_APPS[i])

\* is_ai_related with the two loops in the other order: hosts first.
is_ai_related_hosts_first(name, bundle_id) ==
  Once({ IF MatchesAiHost(name_lower) THEN <<FALSE, TRUE>>
         ELSE IF MatchesAiKeyword(name_lower, bundle_lower) THEN <<TRUE, FALSE>>
         ELSE <<FALSE, FALSE>> :
         name_lower \in { Lower(name) },
         bundle_lower \in { IF Truthy(bundle_id) THEN Lower(bundle_id) ELSE <<>> } })

\* The pair (is_ai_app, is_ai_host) returned by is_ai_related(name, bundle_id).
is_ai_related(name, bundle_id) ==
  Once({ IF MatchesAiKeyword(name_lower, bundle_lower) THEN <<TRUE, FALSE>>
         ELSE IF MatchesAiHost(name_lower) THEN <<FALSE, TRUE>>
         ELSE <<FALSE, FALSE>> :
         name_lower \in { Lower(name) },
         bundle_lower \in { IF Truthy(bundle_id) THEN Lower(bundle_id) ELSE <<>> } })

\* re.sub(r'[^a-z0-9]+', '-', s): every maximal run of characters outside
\* [a-z0-9] becomes one hyphen.  inRun says the previous character was in a run.
RECURSIVE SubNonAlnumRuns(_, _)
SubNonAlnumRuns(s, inRun) ==
  IF s = <<>> THEN <<>>
  ELSE IF IsLowerAlnum(Head(s)) THEN <<Head(s)>> \o SubNonAlnumRuns(Tail(s), FALSE)
  ELSE IF inRun THEN SubNonAlnumRuns(Tail(s), TRUE)
  ELSE <<"-">> \o SubNonAlnumRuns(Tail(s), TRUE)

\* s.lstrip(c) and s.rstrip(c) for one character c.
RECURSIVE LStripChar(_, _)
LStripChar(s, c) ==
  IF s # <<>> /\ Head(s) = c THEN LStripChar(Tail(s), c) ELSE s

RECURSIVE RStripChar(_, _)
RStripChar(s, c) ==
  IF s # <<>> /\ s[Len(s)] = c THEN RStripChar(SubSeq(s, 1, Len(s) - 1), c) ELSE s

\* s.strip('-')
StripHyphens(s) == RStripChar(LStripChar(s, "-"), "-")

\* generate_app_id without the strip('-') of its last step.
generate_app_id_no_strip(name) == SubNonAlnumRuns(Lower(name), FALSE)

generate_app_id(name) == StripHyphens(SubNonAlnumRuns(Lower(name), FALSE))


(***************************************************************************)
(* More string operations used by the collectors.                          *)
(***************************************************************************)
\* The newline character.
LF == "LF"

IsSpace(c) == c = " " \/ c = LF

IsDigit(c) == c \in {"0", "1", "2", "3", "4", "5", "6", "7", "8", "9"}

RECURSIVE LStrip(_)
LStrip(s) == IF s # <<>> /\ IsSpace(Head(s)) THEN LStrip(Tail(s)) ELSE s

RECURSIVE RStrip(_)
RStrip(s) ==
  IF s # <<>> /\ IsSpace(s[Len(s)]) THEN RStrip(SubSeq(s, 1, Len(s) - 1)) ELSE s

\* s.strip()
Strip(s) == RStrip(LStrip(s))

\* s.endswith(p)
EndsWith(s, p) ==
  Len(s) >= Len(p) /\ SubSeq(s, Len(s) - Len(p) + 1, Len(s)) = p

\* The index of the first c in s, 0 when there is none.
RECURSIVE IndexFrom(_, _, _)
IndexFrom(s, c, i) ==
  IF i > Len(s) THEN 0 ELSE IF s[i] = c THEN i ELSE IndexFrom(s, c, i + 1)

IndexOf(s, c) == IndexFrom(s, c, 1)

\* s.split(c): the fields of s between occurrences of the character c.
RECURSIVE SplitOn(_, _)
SplitOn(s, c) ==
  LET i == IndexOf(s, c)
  IN  IF i = 0 THEN <<s>>
      ELSE <<SubSeq(s, 1, i - 1)>> \o SplitOn(SubSeq(s, i + 1, Len(s)), c)

\* s.split(c, 1): at most one split, at the first c.
SplitOnce(s, c) ==
  LET i == IndexOf(s, c)
  IN  IF i = 0 THEN <<s>>
      ELSE <<SubSeq(s, 1, i - 1), SubSeq(s, i + 1, Len(s))>>

\* The length of the longest prefix of s whose characters are not spaces.
RECURSIVE WordLen(_)
WordLen(s) ==
  IF s = <<>> \/ IsSpace(Head(s)) THEN 0 ELSE 1 + WordLen(Tail(s))

\* s.split(): the words of s between runs of whitespace, none of them empty.
RECURSIVE SplitWords(_)
SplitWords(s) ==
  LET t == LStrip(s)
      n == WordLen(t)
  IN  IF t = <<>> THEN <<>>
      ELSE <<SubSeq(t, 1, n)>> \o SplitWords(SubSeq(t, n + 1, Len(t)))

\* any(kw in s for kw in kws)
AnyIn(kws, s) == \E i \in 1..Len(kws) : Contains(s, kws[i])

(***************************************************************************)
(* AppSignature and DiscoveredApp.                                         *)
(***************************************************************************)
\* None where an AppSignature or a DiscoveredApp is optional.
NoSignature == [none |-> TRUE]

NoApp == [none |-> TRUE]

AppSignature(bundle_id, team_id, paths, executable_name, publisher, version) ==
  [bundle_id |-> bundle_id, team_id |-> team_id, paths |-> paths,
   executable_name |-> executable_name, publisher |-> publisher,
   version |-> version]

\* The values the two default factories give every record of one run.
DiscoveredAt ==
    <<"2", "0", "2", "6", "-", "0", "1", "-", "0", "1", "T", "0", "0", ":", "0",
      "0", ":", "0", "0">>

MachineId == <<"0", "1", "2", "3", "4", "5", "6", "7", "8", "9", "a", "b">>

DiscoveredApp(app_id, name, vendor, category, path, macos, windows, linux, is_ai_app, is_ai_host) ==
  [app_id |-> app_id, name |-> name, vendor |-> vendor, category |-> category,
   path |-> path, macos |-> macos, windows |-> windows, linux |-> linux,
   icon_path |-> None, icon_base64 |-> None,
   is_ai_app |-> is_ai_app, is_ai_host |-> is_ai_host,
   discovered_at |-> DiscoveredAt, machine_id |-> MachineId]

AppKeys ==
  {"app_id", "name", "vendor", "category", "path", "macos", "windows", "linux",
   "icon_path", "icon_base64", "is_ai_app", "is_ai_host", "discovered_at",
   "machine_id"}

SignatureKeys == {"macos", "windows", "linux"}

SignatureFields ==
  {"bundle_id", "team_id", "paths", "executable_name", "publisher", "version"}

\* The fields typed Optional[str]: the only ones besides the signatures that
\* can hold None.
OptionalStrKeys == {"vendor", "icon_path", "icon_base64"}

\* any(v for v in sig.values() if v)
AnySignatureValue(sig) ==
  \/ Truthy(sig.bundle_id)
  \/ Truthy(sig.team_id)
  \/ sig.paths # <<>>
  \/ Truthy(sig.executable_name)
  \/ Truthy(sig.publisher)
  \/ Truthy(sig.version)

\* v is None, for the value v of key k.
IsNoneAt(k, v) ==
  IF k \in SignatureKeys THEN v = NoSignature
  ELSE IF k \in OptionalStrKeys THEN v = None
  ELSE FALSE

\* DiscoveredApp.to_dict: the dictionary is a function from the keys kept.
to_dict(app, include_icon) ==
  LET d == [k \in AppKeys |->
              IF k \in SignatureKeys /\ app[k] # NoSignature
                 /\ ~AnySignatureValue(app[k])
              THEN NoSignature
              ELSE app[k]]
      popped == IF include_icon THEN AppKeys ELSE AppKeys \ {"icon_base64"}
      kept == {k \in popped : ~IsNoneAt(k, d[k])}
  IN  [k \in kept |-> d[k]]

(***************************************************************************)
(* MacOSDiscoverer.                                                        *)
(***************************************************************************)
\* self.search_paths, in scan order.
MacSearchPaths ==
  << <<"/", "A", "p", "p", "l", "i", "c", "a", "t", "i", "o", "n", "s">>,
      <<"/", "U", "s", "e", "r", "s", "/", "u", "/", "A", "p", "p", "l", "i",
        "c", "a", "t", "i", "o", "n", "s">>,
      <<"/", "S", "y", "s", "t", "e", "m", "/", "A", "p", "p", "l", "i", "c",
        "a", "t", "i", "o", "n", "s">> >>

\* str(app_path) of the bundle stem.app found in search path root, directly
\* (sub = FALSE) or inside its subdirectory Utilities (sub = TRUE).
BundlePath(root, sub, stem) ==
  MacSearchPaths[root] \o (IF sub THEN
      <<"/", "U", "t", "i", "l", "i", "t", "i", "e", "s">> ELSE <<>>)
    \o <<"/">> \o stem \o <<".", "a", "p", "p">>

\* The exceptions of the model; NoError when nothing was raised.
NoError == "none"

\* The prefix the vendor pattern requires before the publisher's name.
CopyrightMark == << "U+00C2", "U+00A9" >>

\* The index just after the longest run, starting at i, of characters of s
\* that satisfy the class: whitespace (cls = "s") or digits (cls = "d").
RECURSIVE SkipRun(_, _, _)
SkipRun(s, i, cls) ==
  IF i <= Len(s) /\ (IF cls = "s" THEN IsSpace(s[i]) ELSE IsDigit(s[i]))
  THEN SkipRun(s, i + 1, cls)
  ELSE i

\* The end of the shortest non-empty capture starting at i: the first j >= i
\* that is followed by the end of s, a period or "All rights".
RECURSIVE CaptureEnd(_, _)
CaptureEnd(s, j) ==
  IF \/ j >= Len(s)
     \/ s[j + 1] = "."
     \/ StartsWith(SubSeq(s, j + 1, Len(s)),
         <<"A", "l", "l", " ", "r", "i", "g", "h", "t", "s">>)
  THEN j
  ELSE CaptureEnd(s, j + 1)

\* The index of the first occurrence of the string p in s at or after i, 0
\* when there is none.
RECURSIVE FindFrom(_, _, _)
FindFrom(s, p, i) ==
  IF i + Len(p) - 1 > Len(s) THEN 0
  ELSE IF SubSeq(s, i, i + Len(p) - 1) = p THEN i
  ELSE FindFrom(s, p, i + 1)

\* re.search(r'<mark>\s*\d*\s*(.+?)(?:\.|All rights|$)', copyright_str) and
\* match.group(1).strip(): None when nothing matches.  The greedy \s*\d*\s*
\* gives characters back so that the capture holds at least one of them.
VendorOf(copyright_str) ==
  LET m == FindFrom(copyright_str, CopyrightMark, 1)
      after == m + Len(CopyrightMark)
      skipped == SkipRun(copyright_str,
                   SkipRun(copyright_str,
                     SkipRun(copyright_str, after, "s"), "d"), "s")
      start == IF skipped > Len(copyright_str) THEN Len(copyright_str) ELSE skipped
  IN  IF ~Truthy(copyright_str) \/ m = 0 \/ after > Len(copyright_str) THEN None
      ELSE Strip(SubSeq(copyright_str, start, CaptureEnd(copyright_str, start)))

\* The outcome of subprocess.run(['codesign', '-dv', path], timeout=10): an
\* exception raised by it, or the text the tool wrote to stderr.
CodesignOutcomes ==
  { [raises |-> NoError, stderr |->
      <<"E", "x", "e", "c", "u", "t", "a", "b", "l", "e", "=", "/", "x", "LF",
        "T", "e", "a", "m", "I", "d", "e", "n", "t", "i", "f", "i", "e", "r",
        "=", "A", "B", "C", "D", "E", "1", "2", "3", "4", "5">>],
    [raises |-> NoError, stderr |->
        <<"T", "e", "a", "m", "I", "d", "e", "n", "t", "i", "f", "i", "e", "r",
          "=", "n", "o", "t", " ", "s", "e", "t">>],
    [raises |-> NoError, stderr |->
        <<"c", "o", "d", "e", " ", "o", "b", "j", "e", "c", "t", " ", "i", "s",
          " ", "n", "o", "t", " ", "s", "i", "g", "n", "e", "d", " ", "a", "t",
          " ", "a", "l", "l">>],
    [raises |-> "FileNotFoundError", stderr |-> <<>>],
    [raises |-> "TimeoutExpired", stderr |-> <<>>] }

\* The team id the loop over the lines of stderr returns: that of the first
\* TeamIdentifier= line whose value is not empty and not 'not set'.
RECURSIVE TeamIdOfLines(_)
TeamIdOfLines(lines) ==
  IF lines = <<>> THEN None
  ELSE LET line == Head(lines)
           team_id == Strip(SplitOn(line, "=")[2])
       IN  IF Contains(line,
           <<"T", "e", "a", "m", "I", "d", "e", "n", "t", "i", "f", "i", "e",
             "r", "=">>)
              /\ Truthy(team_id) /\ team_id #
                  <<"n", "o", "t", " ", "s", "e", "t">>
           THEN team_id
           ELSE TeamIdOfLines(Tail(lines))

\* MacOSDiscoverer._get_team_id: subprocess.run is called outside any try,
\* so what it raises leaves the method.
MacOS_get_team_id(codesign) ==
  IF codesign.raises # NoError
  THEN [raised |-> codesign.raises, value |-> None]
  ELSE [raised |-> NoError,
        value |-> IF codesign.stderr # <<>>
                  THEN TeamIdOfLines(SplitOn(codesign.stderr, LF))
                  ELSE None]

\* The outcome of the conversion in _extract_icon: creating the temporary
\* file fails, the tool is missing, it times out, it exits non-zero, it
\* succeeds and the file is read, or it succeeds and reading the file fails.
SipsOutcomes ==
  {"tmp_error", "FileNotFoundError", "TimeoutExpired", "nonzero", "ok", "read_error"}

\* The PNG bytes a successful conversion of icon file f yields.
PngOf(f) == <<"PNG">> \o f

\* base64.b64encode(data).decode('utf-8')
Base64(data) == <<"base64">> \o data

\* The file of Contents/Resources that _extract_icon converts, None when it
\* returns before the conversion.  resources is the sequence of file names
\* in that directory, in glob order.
IconFileOf(plist, resources) ==
  LET has(f) == \E i \in 1..Len(resources) : resources[i] = f
      named == IF Truthy(plist.CFBundleIconFile) THEN plist.CFBundleIconFile
               ELSE plist.CFBundleIconName
      icon_file == IF EndsWith(named, <<".", "i", "c", "n", "s">>) THEN named ELSE named \o
          <<".", "i", "c", "n", "s">>
      icns_files == SelectSeq(resources, LAMBDA f : EndsWith(f,
          <<".", "i", "c", "n", "s">>))
  IN  IF ~Truthy(named) THEN None
      ELSE IF has(icon_file) THEN icon_file
      ELSE IF ~Truthy(plist.CFBundleIconFile) THEN None
      ELSE IF has(plist.CFBundleIconFile) THEN plist.CFBundleIconFile
      ELSE IF icns_files # <<>> THEN icns_files[1]
      ELSE None

\* MacOSDiscoverer._extract_icon: the bytes returned (None for none) and
\* whether the temporary file it created is still there when it returns.
MacOS_extract_icon(plist, resources, sips) ==
  LET icon_path == IconFileOf(plist, resources)
  IN  IF icon_path = None \/ sips = "tmp_error"
      THEN [data |-> None, tmp_left |-> FALSE]
      ELSE IF sips = "ok"
      THEN [data |-> PngOf(icon_path), tmp_left |-> FALSE]
      ELSE IF sips = "nonzero"
      THEN [data |-> None, tmp_left |-> FALSE]
      ELSE [data |-> None, tmp_left |-> TRUE]

\* The category _discover_app gives a bundle.
MacCategory(name, is_ai, is_host) ==
  LET n == Lower(name)
  IN  IF is_ai
      THEN IF AnyIn(<< <<"c", "o", "d", "e">>, <<"i", "d", "e">>,
          <<"c", "u", "r", "s", "o", "r">>,
          <<"c", "o", "p", "i", "l", "o", "t">>, <<"c", "o", "d", "y">>,
                       <<"s", "t", "u", "d", "i", "o">>, <<"z", "e", "d">> >>, n) THEN
                           <<"d", "e", "v", "_", "t", "o", "o", "l", "s">>
           ELSE IF AnyIn(<< <<"c", "h", "a", "t">>,
               <<"c", "l", "a", "u", "d", "e">>, <<"g", "p", "t">>,
               <<"g", "e", "m", "i", "n", "i">>,
                            <<"p", "e", "r", "p", "l", "e", "x", "i", "t", "y">> >>, n) THEN
                                <<"c", "h", "a", "t">>
           ELSE IF AnyIn(<< <<"n", "o", "t", "i", "o", "n">>,
               <<"o", "b", "s", "i", "d", "i", "a", "n">>,
               <<"g", "r", "a", "m", "m", "a", "r", "l", "y">> >>, n)
           THEN <<"p", "r", "o", "d", "u", "c", "t", "i", "v", "i", "t", "y">>
           ELSE IF AnyIn(<< <<"m", "i", "d", "j", "o", "u", "r", "n", "e", "y">>,
               <<"d", "a", "l", "l">>, <<"s", "t", "a", "b", "l", "e">>,
               <<"r", "u", "n", "w", "a", "y">> >>, n)
           THEN <<"c", "r", "e", "a", "t", "i", "v", "e">>
           ELSE <<"o", "t", "h", "e", "r">>
      ELSE IF is_host THEN <<"d", "e", "v", "_", "t", "o", "o", "l", "s">>
      ELSE <<"o", "t", "h", "e", "r">>

\* MacOSDiscoverer._discover_app on one bundle.  bundle.plist is "missing"
\* (no Info.plist), "malformed" (plistlib.load raises) or "ok", and then
\* bundle.info holds the keys read (<<>> for an absent key).  The result is
\* the record (NoApp for None), the exception that left the method, whether
\* a temporary file was left behind and the icon file written to icons_dir.
MacOS_discover_app(bundle, codesign, sips, extract_icons, icons_dir) ==
  LET plist == bundle.info
      app_path == BundlePath(bundle.root, bundle.sub, bundle.stem)
      bundle_id == plist.CFBundleIdentifier
      name == IF Truthy(plist.CFBundleName) THEN plist.CFBundleName
              ELSE IF Truthy(plist.CFBundleDisplayName) THEN plist.CFBundleDisplayName
              ELSE bundle.stem
      vendor == VendorOf(plist.NSHumanReadableCopyright)
      signature(team_id) ==
        AppSignature(bundle_id, team_id, <<app_path>>, plist.CFBundleExecutable,
                     None, plist.CFBundleShortVersionString)
      record(team_id, ai) ==
        DiscoveredApp(generate_app_id(name), name, vendor,
                      MacCategory(name, ai[1], ai[2]), app_path,
                      signature(team_id), NoSignature, NoSignature, ai[1], ai[2])
      nothing == [app |-> NoApp, raised |-> NoError, tmp_left |-> FALSE,
                  icon_data |-> None, icon_written |-> None]
      \* lines 254-265: the icon, once the record app is built
      with_icon(app, icon) ==
        IF ~Truthy(icon.data)
        THEN [nothing EXCEPT !.app = app, !.tmp_left = icon.tmp_left]
        ELSE IF icons_dir # None
        THEN [app |-> [app EXCEPT !.icon_path =
                         icons_dir \o <<"/">> \o app.app_id \o
                             <<".", "p", "n", "g">>],
              raised |-> NoError, tmp_left |-> icon.tmp_left,
              icon_data |-> icon.data,
              icon_written |-> icons_dir \o <<"/">> \o app.app_id \o
                  <<".", "p", "n", "g">>]
        ELSE [app |-> [app EXCEPT !.icon_base64 = Base64(icon.data)],
              raised |-> NoError, tmp_left |-> icon.tmp_left,
              icon_data |-> icon.data, icon_written |-> None]
  IN  IF bundle.plist # "ok" \/ ~Truthy(bundle_id) THEN nothing
      ELSE Once({ IF team.raised # NoError
                  THEN [nothing EXCEPT !.raised = team.raised]
                  ELSE Once({ with_icon(app, icon) :
                         app \in { record(team.value,
                                           is_ai_related(name, bundle_id)) },
                         icon \in { IF extract_icons
                                    THEN MacOS_extract_icon(plist, bundle.resources, sips)
                                    ELSE [data |-> None, tmp_left |-> FALSE] } }) :
                  team \in { MacOS_get_team_id(codesign) } })

\* The test of discover_all's loops without the look into seen_bundle_ids.
MacAccepts_unseen_or_not(app, seen) ==
  /\ app # NoApp
  /\ app.macos # NoSignature
  /\ Truthy(app.macos.bundle_id)

\* The test of discover_all's loops: a record with a bundle id not seen yet.
MacAccepts(app, seen) ==
  /\ app # NoApp
  /\ app.macos # NoSignature
  /\ Truthy(app.macos.bundle_id)
  /\ app.macos.bundle_id \notin seen

(***************************************************************************)
(* WindowsDiscoverer.                                                      *)
(***************************************************************************)
\* search_paths of discover_all with the environment's variables unset.
WinSearchPaths ==
  << <<"C", ":", "\\", "P", "r", "o", "g", "r", "a", "m", " ", "F", "i", "l",
       "e", "s">>,
      <<"C", ":", "\\", "P", "r", "o", "g", "r", "a", "m", " ", "F", "i", "l",
        "e", "s", " ", "(", "x", "8", "6", ")">>,
      <<"P", "r", "o", "g", "r", "a", "m", "s">> >>

\* exe_path.name and str(exe_path) of the executable stem.exe found by rglob
\* in directory dir under search path root.
ExeName(exe) == exe.stem \o <<".", "e", "x", "e">>

ExePath(exe) == WinSearchPaths[exe.root] \o <<"\\">> \o exe.dir \o <<"\\">> \o ExeName(exe)

WinSkips_case_sensitive(exe) ==
  AnyIn(<< <<"u", "n", "i", "n", "s", "t", "a", "l", "l">>,
      <<"u", "p", "d", "a", "t", "e">>, <<"s", "e", "t", "u", "p">>,
      <<"i", "n", "s", "t", "a", "l", "l", "e", "r">> >>,
        ExeName(exe))

\* The test that makes discover_all skip an executable.
WinSkips(exe) ==
  AnyIn(<< <<"u", "n", "i", "n", "s", "t", "a", "l", "l">>,
      <<"u", "p", "d", "a", "t", "e">>, <<"s", "e", "t", "u", "p">>,
      <<"i", "n", "s", "t", "a", "l", "l", "e", "r">> >>,
        Lower(ExeName(exe)))

\* WindowsDiscoverer._discover_app: NoApp for None.
Windows_discover_app(exe) ==
  LET name == exe.stem
      signature == AppSignature(None, None, <<ExePath(exe)>>, ExeName(exe),
                                None, None)
  IN  Once({ IF ~ai[1] /\ ~ai[2] THEN NoApp
             ELSE DiscoveredApp(generate_app_id(name), name, None,
                 <<"o", "t", "h", "e", "r">>,
                                ExePath(exe), NoSignature, signature,
                                NoSignature, ai[1], ai[2]) :
             ai \in { is_ai_related(name, <<>>) } })

(***************************************************************************)
(* LinuxDiscoverer.                                                        *)
(***************************************************************************)
\* Path(p).name: the last component of p.
RECURSIVE BaseName(_)
BaseName(p) ==
  LET q == RStripChar(p, "/")
      i == IndexOf(q, "/")
  IN  IF i = 0 THEN q ELSE BaseName(SubSeq(q, i + 1, Len(q)))

\* The loop of _parse_desktop_file over the lines of the file: every Name=
\* and Exec= line assigns, so the last of each is the one kept.  [0] of an
\* empty split() raises IndexError and ends the loop.
RECURSIVE ParseDesktopLines(_, _, _)
ParseDesktopLines(lines, name, exec_path) ==
  IF lines = <<>>
  THEN [name |-> name, exec_path |-> exec_path, raised |-> NoError]
  ELSE LET line == Head(lines)
           value == SplitOnce(line, "=")[2]
       IN  IF StartsWith(line, <<"N", "a", "m", "e", "=">>)
           THEN ParseDesktopLines(Tail(lines), Strip(value), exec_path)
           ELSE IF StartsWith(line, <<"E", "x", "e", "c", "=">>)
           THEN IF SplitWords(value) = <<>>
                THEN [name |-> name, exec_path |-> exec_path,
                      raised |-> "IndexError"]
                ELSE ParseDesktopLines(Tail(lines), name,
                                       Strip(SplitWords(value)[1]))
           ELSE ParseDesktopLines(Tail(lines), name, exec_path)

\* LinuxDiscoverer._parse_desktop_file on one file: the record (NoApp for
\* None) and the exception that left the method.  A file that cannot be read
\* has readable = FALSE.
Linux_parse_desktop_file(desktop_file) ==
  LET signature(exec_path) ==
        AppSignature(None, None,
                     IF Truthy(exec_path) THEN <<exec_path>> ELSE <<>>,
                     IF Truthy(exec_path) THEN BaseName(exec_path) ELSE None,
                     None, None)
      record(name, exec_path, ai) ==
        DiscoveredApp(generate_app_id(name), name, None,
            <<"o", "t", "h", "e", "r">>,
                      IF Truthy(exec_path) THEN exec_path ELSE <<>>,
                      NoSignature, NoSignature, signature(exec_path),
                      ai[1], ai[2])
  IN  IF ~desktop_file.readable THEN [app |-> NoApp, raised |-> NoError]
      ELSE Once({ IF parsed.raised # NoError
                  THEN [app |-> NoApp, raised |-> parsed.raised]
                  ELSE IF ~Truthy(parsed.name)
                  THEN [app |-> NoApp, raised |-> NoError]
                  ELSE Once({ [app |-> record(parsed.name, parsed.exec_path, ai),
                               raised |-> NoError] :
                              ai \in { is_ai_related(parsed.name, <<>>) } }) :
                  parsed \in { ParseDesktopLines(
                                 SplitOn(desktop_file.content, LF), None, None) } })

(***************************************************************************)
(* discover_apps: the filter and the sort.                                 *)
(***************************************************************************)
\* The key of the sort with the name as it is written, not lower-cased.
SortKey_case_sensitive(a) == <<~a.is_ai_app, ~a.is_ai_host, a.name>>

\* The key of the sort: (not a.is_ai_app, not a.is_ai_host, a.name.lower()).
SortKey(a) == <<~a.is_ai_app, ~a.is_ai_host, Lower(a.name)>>

\* k1 < k2 for two keys: tuples compare item by item, False < True.
KeyLess(k1, k2) ==
  IF k1[1] # k2[1] THEN k2[1]
  ELSE IF k1[2] # k2[2] THEN k2[2]
  ELSE StrLess(k1[3], k2[3])

\* list.sort is stable: a goes before the first element with a greater key.
RECURSIVE InsertByKey(_, _)
InsertByKey(sorted, a) ==
  IF sorted = <<>> THEN <<a>>
  ELSE IF KeyLess(SortKey(a), SortKey(Head(sorted))) THEN <<a>> \o sorted
  ELSE <<Head(sorted)>> \o InsertByKey(Tail(sorted), a)

RECURSIVE SortApps(_)
SortApps(list) ==
  IF list = <<>> THEN <<>>
  ELSE InsertByKey(SortApps(SubSeq(list, 1, Len(list) - 1)), list[Len(list)])

\* What discover_apps does with the list discover_all returned.
FilterAndSort(list, ai_only) ==
  SortApps(IF ai_only
           THEN SelectSeq(list, LAMBDA a : a.is_ai_app \/ a.is_ai_host)
           ELSE list)

(***************************************************************************)
(* to_yaml.                                                                *)
(***************************************************************************)
\* sep.join(lines)
RECURSIVE Join(_, _)
Join(lines, sep) ==
  IF lines = <<>> THEN <<>>
  ELSE IF Len(lines) = 1 THEN lines[1]
  ELSE lines[1] \o sep \o Join(Tail(lines), sep)

\* line if cond else nothing
LineIf(cond, line) == IF cond THEN <<line>> ELSE <<>>

\* The lines of one signature's paths.
PathLines(paths) ==
  LineIf(paths # <<>>, <<" ", " ", " ", " ", "p", "a", "t", "h", "s", ":">>)
    \o [i \in 1..Len(paths) |-> <<" ", " ", " ", " ", " ", " ", "-", " ", "\"">> \o paths[i] \o
        <<"\"">>]

\* to_yaml(app): the lines, joined by newlines.
to_yaml(app) ==
  LET macos ==
        IF app.macos = NoSignature THEN <<>>
        ELSE << <<" ", " ", "m", "a", "c", "o", "s", ":">> >>
             \o LineIf(Truthy(app.macos.bundle_id),
                       <<" ", " ", " ", " ", "b", "u", "n", "d", "l", "e", "_",
                         "i", "d", ":", " ", "\"">> \o app.macos.bundle_id \o
                           <<"\"">>)
             \o LineIf(Truthy(app.macos.team_id),
                       <<" ", " ", " ", " ", "t", "e", "a", "m", "_", "i", "d",
                         ":", " ", "\"">> \o app.macos.team_id \o <<"\"">>)
             \o PathLines(app.macos.paths)
             \o LineIf(Truthy(app.macos.executable_name),
                       <<" ", " ", " ", " ", "e", "x", "e", "c", "u", "t", "a",
                         "b", "l", "e", "_", "n", "a", "m", "e", ":", " ", "\"">> \o app.macos.executable_name \o
                           <<"\"">>)
      windows ==
        IF app.windows = NoSignature THEN <<>>
        ELSE << <<" ", " ", "w", "i", "n", "d", "o", "w", "s", ":">> >>
             \o PathLines(app.windows.paths)
             \o LineIf(Truthy(app.windows.executable_name),
                       <<" ", " ", " ", " ", "e", "x", "e", "c", "u", "t", "a",
                         "b", "l", "e", "_", "n", "a", "m", "e", ":", " ", "\"">> \o app.windows.executable_name \o
                           <<"\"">>)
      linux ==
        IF app.linux = NoSignature THEN <<>>
        ELSE << <<" ", " ", "l", "i", "n", "u", "x", ":">> >>
             \o PathLines(app.linux.paths)
             \o LineIf(Truthy(app.linux.executable_name),
                       <<" ", " ", " ", " ", "e", "x", "e", "c", "u", "t", "a",
                         "b", "l", "e", "_", "n", "a", "m", "e", ":", " ", "\"">> \o app.linux.executable_name \o
                           <<"\"">>)
      lines ==
        << <<"#", " ">> \o app.name,
           <<"#", " ", "D", "i", "s", "c", "o", "v", "e", "r", "e", "d", " ",
             "f", "r", "o", "m", ":", " ">> \o app.path,
           <<>>,
           <<"a", "p", "p", "_", "i", "d", ":", " ">> \o app.app_id,
           <<"n", "a", "m", "e", ":", " ", "\"">> \o app.name \o <<"\"">> >>
        \o LineIf(Truthy(app.vendor),
            <<"v", "e", "n", "d", "o", "r", ":", " ", "\"">> \o app.vendor \o
            <<"\"">>)
        \o << <<"c", "a", "t", "e", "g", "o", "r", "y", ":", " ">> \o app.category, <<>>,
            <<"s", "i", "g", "n", "a", "t", "u", "r", "e", "s", ":">> >>
        \o macos \o windows \o linux
        \o << <<>>, <<"m", "e", "t", "a", "d", "a", "t", "a", ":">>,
              <<" ", " ", "d", "i", "s", "c", "o", "v", "e", "r", "e", "d", "_",
                "a", "t", ":", " ", "\"">> \o app.discovered_at \o <<"\"">> >>
        \o LineIf(app.macos # NoSignature /\ Truthy(app.macos.version),
                  <<" ", " ", "v", "e", "r", "s", "i", "o", "n", "_", "d", "i",
                    "s", "c", "o", "v", "e", "r", "e", "d", ":", " ", "\"">> \o app.macos.version \o
                      <<"\"">>)
        \o LineIf(app.is_ai_app,
            <<" ", " ", "i", "s", "_", "a", "i", "_", "a", "p", "p", ":", " ",
              "t", "r", "u", "e">>)
        \o LineIf(app.is_ai_host,
            <<" ", " ", "i", "s", "_", "a", "i", "_", "h", "o", "s", "t", ":",
              " ", "t", "r", "u", "e">>)
        \o LineIf(Truthy(app.icon_path),
                  <<" ", " ", "i", "c", "o", "n", ":", " ", "\"">> \o BaseName(app.icon_path) \o
                      <<"\"">>)
        \o << <<>> >>
  IN  Join(lines, <<LF>>)

(***************************************************************************)
(* The machine a run reads: the artifacts a collector can come across.     *)
(***************************************************************************)
\* The keys _discover_app and _extract_icon read from Info.plist.
Info(id, name, display, version, executable, copyright, icon_file, icon_name) ==
  [CFBundleIdentifier |-> id, CFBundleName |-> name,
   CFBundleDisplayName |-> display, CFBundleShortVersionString |-> version,
   CFBundleExecutable |-> executable, NSHumanReadableCopyright |-> copyright,
   CFBundleIconFile |-> icon_file, CFBundleIconName |-> icon_name]

NoInfo == Info(<<>>, <<>>, <<>>, <<>>, <<>>, <<>>, <<>>, <<>>)

Bundle(root, sub, stem, plist, info, resources) ==
  [root |-> root, sub |-> sub, stem |-> stem, plist |-> plist, info |-> info,
   resources |-> resources]

MacBundles ==
  { Bundle(1, FALSE, <<"C", "h", "a", "t", "G", "P", "T">>, "ok",
           Info(
               <<"c", "o", "m", ".", "o", "p", "e", "n", "a", "i", ".", "c",
                 "h", "a", "t">>, <<"C", "h", "a", "t", "G", "P", "T">>, <<>>,
               <<"1", ".", "2">>, <<"C", "h", "a", "t", "G", "P", "T">>,
                <<"U+00C2", "U+00A9", " ", "2", "0", "2", "4", " ", "O", "p",
                  "e", "n", "A", "I", ".", " ", "A", "l", "l", " ", "r", "i",
                  "g", "h", "t", "s", " ", "r", "e", "s", "e", "r", "v", "e",
                  "d">>, <<"A", "p", "p", "I", "c", "o", "n">>, <<>>),
           << <<"A", "p", "p", "I", "c", "o", "n", ".", "i", "c", "n", "s">> >>),
    Bundle(2, FALSE,
        <<"C", "h", "a", "t", "G", "P", "T", " ", "c", "o", "p", "y">>, "ok",
           Info(
               <<"c", "o", "m", ".", "o", "p", "e", "n", "a", "i", ".", "c",
                 "h", "a", "t">>, <<>>, <<>>, <<>>, <<>>, <<>>, <<>>, <<>>),
           <<>>),
    Bundle(1, TRUE, <<"C", "h", "a", "t">>, "ok",
           Info(
               <<"o", "r", "g", ".", "e", "x", "a", "m", "p", "l", "e", ".",
                 "C", "h", "a", "t">>, <<>>,
               <<"c", "h", "a", "t", "g", "p", "t">>, <<>>, <<>>, <<>>,
                <<"c", "h", "a", "t", ".", "i", "c", "n", "s">>, <<>>),
           << <<"o", "t", "h", "e", "r", ".", "i", "c", "n", "s">> >>),
    Bundle(1, FALSE, <<"X", "c", "o", "d", "e">>, "ok",
           Info(
               <<"c", "o", "m", ".", "a", "p", "p", "l", "e", ".", "d", "t",
                 ".", "X", "c", "o", "d", "e">>, <<>>, <<>>,
               <<"1", "5", ".", "0">>, <<"X", "c", "o", "d", "e">>, <<>>,
                <<>>, <<"X", "c", "o", "d", "e">>),
           <<>>),
    Bundle(3, FALSE, <<"N", "o", "t", "e", "s">>, "ok",
           Info(
               <<"c", "o", "m", ".", "a", "p", "p", "l", "e", ".", "N", "o",
                 "t", "e", "s">>, <<"N", "o", "t", "e", "s">>, <<>>, <<>>,
               <<"N", "o", "t", "e", "s">>, <<>>,
                <<>>, <<>>),
           <<>>),
    Bundle(1, FALSE, <<"B", "r", "o", "k", "e", "n">>, "malformed", NoInfo, <<>>),
    Bundle(2, FALSE, <<"E", "m", "p", "t", "y">>, "missing", NoInfo, <<>>),
    Bundle(3, TRUE, <<"N", "o", "I", "d">>, "ok",
           Info(<<>>, <<"N", "o", "I", "d">>, <<>>, <<>>, <<>>, <<>>, <<>>, <<>>), <<>>) }

Exe(root, dir, stem) == [root |-> root, dir |-> dir, stem |-> stem]

WinExes ==
  { Exe(1, <<"C", "u", "r", "s", "o", "r">>, <<"C", "u", "r", "s", "o", "r">>),
    Exe(3, <<"c", "u", "r", "s", "o", "r">>, <<"c", "u", "r", "s", "o", "r">>),
    Exe(1, <<"C", "u", "r", "s", "o", "r">>,
        <<"C", "u", "r", "s", "o", "r", " ", "S", "e", "t", "u", "p">>),
    Exe(1, <<"V", "i", "m">>, <<"g", "v", "i", "m">>),
    Exe(2, <<"J", "e", "t", "B", "r", "a", "i", "n", "s">>,
        <<"P", "y", "C", "h", "a", "r", "m", "6", "4">>),
    Exe(2, <<"N", "o", "t", "e", "p", "a", "d">>,
        <<"n", "o", "t", "e", "p", "a", "d">>),
    Exe(1, <<"V", "S", " ", "C", "o", "d", "e">>, <<"C", "o", "d", "e">>),
    Exe(3, <<"Z", "e", "d">>,
        <<"z", "e", "d", "-", "u", "p", "d", "a", "t", "e", "r">>) }

DesktopFile(dir, file, readable, content) ==
  [dir |-> dir, file |-> file, readable |-> readable, content |-> content]

LinuxDesktopFiles ==
  { DesktopFile(1, <<"c", "o", "d", "e">>, TRUE,
      <<"[", "D", "e", "s", "k", "t", "o", "p", " ", "E", "n", "t", "r", "y",
        "]", "LF", "N", "a", "m", "e", "=", "V", "i", "s", "u", "a", "l", " ",
        "S", "t", "u", "d", "i", "o", " ", "C", "o", "d", "e", "LF", "E", "x",
        "e", "c", "=", "/", "u", "s", "r", "/", "b", "i", "n", "/", "c", "o",
        "d", "e", " ", "%", "F">>),
    DesktopFile(1, <<"z", "e", "d">>, TRUE,
        <<"N", "a", "m", "e", "=", "Z", "e", "d", "LF", "E", "x", "e", "c", "=",
          "z", "e", "d">>),
    DesktopFile(3, <<"z", "e", "d">>, TRUE,
        <<"N", "a", "m", "e", "=", "z", "e", "d", "LF", "E", "x", "e", "c", "=",
          "/", "o", "p", "t", "/", "z", "e", "d", "/", "z", "e", "d">>),
    DesktopFile(2, <<"a", "i", "d", "e", "r">>, TRUE,
      <<"N", "a", "m", "e", "=", "A", "i", "d", "e", "r", " ", "C", "h", "a",
        "t", "LF", "E", "x", "e", "c", "=", "a", "i", "d", "e", "r", " ", "-",
        "-", "g", "u", "i", "LF", "N", "a", "m", "e", "=", "a", "i", "d", "e",
        "r", "LF", "E", "x", "e", "c", "=", "/", "u", "s", "r", "/", "b", "i",
        "n", "/", "a", "i", "d", "e", "r">>),
    DesktopFile(1, <<"v", "i", "m">>, TRUE,
        <<"N", "a", "m", "e", "=", "V", "i", "m">>),
    DesktopFile(1, <<"f", "i", "l", "e", "s">>, TRUE,
        <<"N", "a", "m", "e", "=", "F", "i", "l", "e", "s", "LF", "E", "x", "e",
          "c", "=", "n", "a", "u", "t", "i", "l", "u", "s">>),
    DesktopFile(2, <<"t", "e", "r", "m">>, TRUE,
        <<"N", "a", "m", "e", "=", "T", "e", "r", "m", "i", "n", "a", "l", "LF",
          "E", "x", "e", "c", "=", " ">>),
    DesktopFile(2, <<"l", "o", "c", "k", "e", "d">>, FALSE, <<>>),
    DesktopFile(3, <<"a", "n", "o", "n">>, TRUE,
        <<"E", "x", "e", "c", "=", "/", "b", "i", "n", "/", "t", "r", "u", "e",
          "LF", "N", "a", "m", "e", "=">>) }

\* The command lines main can be given: the values argparse stores.
Args(yaml, yaml_dir, ai_only, with_icons, icons_dir, submit) ==
  [yaml |-> yaml, yaml_dir |-> yaml_dir, ai_only |-> ai_only,
   with_icons |-> with_icons, icons_dir |-> icons_dir, submit |-> submit]

ArgSets ==
  { Args(FALSE, None, ai_only, FALSE, None, None) : ai_only \in BOOLEAN }
  \cup { Args(FALSE, None, FALSE, TRUE, icons_dir, None) :
           icons_dir \in {None, <<"i", "c">>} }
  \cup { Args(FALSE, <<"o", "u", "t">>, ai_only, with_icons, None, None) :
           ai_only \in BOOLEAN, with_icons \in BOOLEAN }
  \cup { Args(TRUE, None, FALSE, FALSE, None, None),
         Args(TRUE, None, TRUE, FALSE, None,
             <<"h", "t", "t", "p", ":", "/", "/", "r">>),
         Args(FALSE, None, FALSE, FALSE, None,
             <<"h", "t", "t", "p", ":", "/", "/", "r">>),
         Args(FALSE, None, FALSE, FALSE, None, <<"r">>) }

\* icons_dir as main computes it from the arguments.
IconsDirOf(a) ==
  IF Truthy(a.icons_dir) THEN a.icons_dir
  ELSE IF Truthy(a.yaml_dir) /\ a.with_icons THEN a.yaml_dir \o
      <<"/", "i", "c", "o", "n", "s">>
  ELSE None

\* The outcomes of urllib.request.urlopen.
SubmitOutcomes == {"2xx", "HTTPError", "URLError"}

\* urllib.request.Request(url, ...) accepts url when it starts with a scheme:
\* one or more characters other than / and :, then a colon.  It raises
\* ValueError otherwise.
HasScheme(url) ==
  LET colon == IndexOf(url, ":")
      slash == IndexOf(url, "/")
  IN  colon > 1 /\ (slash = 0 \/ slash > colon)

\* What main prints about the submission and the status it ends with: the
\* with block for a 2xx response, the except branch for anything raised.
SubmitPrinted(outcome) ==
  IF outcome = "2xx" THEN
      <<"S", "u", "b", "m", "i", "t", "t", "e", "d", " ", "t", "o">> ELSE
      <<"F", "a", "i", "l", "e", "d", " ", "t", "o", " ", "s", "u", "b", "m",
        "i", "t">>

SubmitExitCode_always_zero(outcome) == 0

SubmitExitCode(outcome) == IF outcome = "2xx" THEN 0 ELSE 1

\* The inputs of the functions checked on their own: names are up to
\* MaxTokens of these pieces, one after the other.
NameTokens ==
  { <<"Z", "e", "d">>, <<"v", "i", "m">>, <<"G", "P", "T", "4">>, <<" ">>,
      <<"-">>, <<"U+00C9">>, <<"_", ".">> }

RECURSIVE NamesOfLen(_)
NamesOfLen(n) ==
  IF n = 0 THEN { <<>> }
  ELSE { s \o t : s \in NamesOfLen(n - 1), t \in NameTokens }

NameInputs == UNION { NamesOfLen(n) : n \in 0..MaxTokens }

BundleIdInputs == { <<>>,
    <<"c", "o", "m", ".", "o", "p", "e", "n", "a", "i", ".", "c", "h", "a", "t">>,
    <<"c", "o", "m", ".", "a", "p", "p", "l", "e", ".", "d", "t", ".", "X", "c",
      "o", "d", "e">> }

(***************************************************************************)
(* State.                                                                  *)
(***************************************************************************)
VARIABLES
  system,           \* platform.system()
  args,             \* the parsed command line
  pc,               \* where the run is: scan, discovered, sorted, done, raised
  apps,             \* the list discover_all builds and discover_apps sorts
  seen_bundle_ids,  \* seen_bundle_ids of MacOSDiscoverer.discover_all
  scanned,          \* the artifacts the collector has come across, in order
  error,            \* the exception that ended the run, NoError for none
  tmp_files,        \* the temporary files of _extract_icon that still exist
  icon_files,       \* the files of icons_dir: name -> bytes
  yaml_files,       \* the files of --yaml-dir: name -> text
  stdout_yaml,      \* the documents --yaml printed
  stdout_json,      \* the document the default mode printed
  posts,            \* the bodies of the POST requests attempted
  submission,       \* what urlopen did and what main printed about it
  exit_code,        \* the status the process ended with, -1 while it runs
  fn_pc,            \* the functions checked on their own: input, then called
  fn_name,          \* their argument name
  fn_bundle_id,     \* is_ai_related's argument bundle_id
  fn_result         \* what the function called returned

run_vars ==
  <<system, args, pc, apps, seen_bundle_ids, scanned, error, tmp_files,
    icon_files, yaml_files, stdout_yaml, stdout_json, posts, submission,
    exit_code>>

fn_vars == <<fn_pc, fn_name, fn_bundle_id, fn_result>>

vars == <<run_vars, fn_vars>>

Running == -1

NoOutput == [none |-> TRUE]

\* A function with one more (or one replaced) entry: writing file f.
WriteFile(files, f, content) ==
  [g \in (DOMAIN files) \cup {f} |-> IF g = f THEN content ELSE files[g]]

NoFiles == [g \in {} |-> <<>>]

RunIdle ==
  /\ system = "none"
  /\ args = Args(FALSE, None, FALSE, FALSE, None, None)
  /\ pc = "idle"
  /\ apps = <<>>
  /\ seen_bundle_ids = {}
  /\ scanned = <<>>
  /\ error = NoError
  /\ tmp_files = {}
  /\ icon_files = NoFiles
  /\ yaml_files = NoFiles
  /\ stdout_yaml = <<>>
  /\ stdout_json = NoOutput
  /\ posts = <<>>
  /\ submission = NoOutput
  /\ exit_code = Running

FnIdle ==
  /\ fn_pc = "idle"
  /\ fn_name = <<>>
  /\ fn_bundle_id = <<>>
  /\ fn_result = <<>>

Systems == {"Darwin", "Windows", "Linux", "FreeBSD"}

\* main up to the call of discover_apps: the arguments are parsed and the
\* collector of the platform is about to scan.
Init ==
  /\ system \in Systems
  /\ args \in ArgSets
  /\ pc = "scan"
  /\ apps = <<>>
  /\ seen_bundle_ids = {}
  /\ scanned = <<>>
  /\ error = NoError
  /\ tmp_files = {}
  /\ icon_files = NoFiles
  /\ yaml_files = NoFiles
  /\ stdout_yaml = <<>>
  /\ stdout_json = NoOutput
  /\ posts = <<>>
  /\ submission = NoOutput
  /\ exit_code = Running
  /\ FnIdle

(***************************************************************************)
(* The collectors' loops, one artifact a step.                             *)
(***************************************************************************)
\* The loops visit the search paths in order, and in a search path of macOS
\* the bundles at the top before those of the subdirectories.
ScanPosition(root, sub) == 2 * root + (IF sub THEN 1 ELSE 0)

Scanned(path, pos, id, app) ==
  [path |-> path, pos |-> pos, id |-> id, yielded |-> app # NoApp]

\* The artifact at path, at position pos, can be the next one of the scan.
CanScan(path, pos) ==
  /\ pc = "scan"
  /\ Len(scanned) < MaxArtifacts
  /\ \A i \in 1..Len(scanned) : scanned[i].path # path /\ scanned[i].pos <= pos

\* An exception nothing catches ends the process with a traceback.
Raise(exception) ==
  /\ pc' = "raised"
  /\ error' = exception
  /\ exit_code' = 1

\* What _discover_app returns for every bundle, outcome of the two tools and
\* icon setting of the model: MacOS_discover_app, evaluated once.
IconSettings == { <<a.with_icons, IconsDirOf(a)>> : a \in ArgSets }

MacDiscovered ==
  [bundle \in MacBundles |->
    [codesign \in CodesignOutcomes |->
      [sips \in SipsOutcomes |->
        [icons \in IconSettings |->
          MacOS_discover_app(bundle, codesign, sips, icons[1], icons[2])]]]]

\* One iteration of the loops of MacOSDiscoverer.discover_all.
MacScan ==
  /\ system = "Darwin"
  /\ \E bundle \in MacBundles, codesign \in CodesignOutcomes, sips \in SipsOutcomes :
       LET path == BundlePath(bundle.root, bundle.sub, bundle.stem)
           pos == ScanPosition(bundle.root, bundle.sub)
           r == MacDiscovered[bundle][codesign][sips][
                  <<args.with_icons, IconsDirOf(args)>>]
       IN  /\ CanScan(path, pos)
           /\ scanned' = Append(scanned,
                Scanned(path, pos, bundle.info.CFBundleIdentifier, r.app))
           /\ tmp_files' = IF r.tmp_left THEN tmp_files \cup {Len(scanned) + 1}
                           ELSE tmp_files
           /\ icon_files' = IF r.icon_written # None
                            THEN WriteFile(icon_files, r.icon_written, r.icon_data)
                            ELSE icon_files
           /\ IF r.raised # NoError
              THEN /\ Raise(r.raised)
                   /\ UNCHANGED <<apps, seen_bundle_ids>>
              ELSE /\ IF MacAccepts(r.app, seen_bundle_ids)
                      THEN /\ seen_bundle_ids' =
                                seen_bundle_ids \cup {r.app.macos.bundle_id}
                           /\ apps' = Append(apps, r.app)
                      ELSE UNCHANGED <<apps, seen_bundle_ids>>
                   /\ UNCHANGED <<pc, error, exit_code>>
  /\ UNCHANGED <<system, args, yaml_files, stdout_yaml, stdout_json, posts,
                 submission>>
  /\ UNCHANGED fn_vars

\* What the body of the loop yields for every executable of the model: it is
\* skipped, or _discover_app is called on it.
WinDiscovered ==
  [exe \in WinExes |->
    IF WinSkips(exe) THEN NoApp ELSE Windows_discover_app(exe)]

\* One iteration of the loop of WindowsDiscoverer.discover_all.
WinScan ==
  /\ system = "Windows"
  /\ \E exe \in WinExes :
       LET app == WinDiscovered[exe]
       IN  /\ CanScan(ExePath(exe), ScanPosition(exe.root, FALSE))
           /\ scanned' = Append(scanned,
                Scanned(ExePath(exe), ScanPosition(exe.root, FALSE), <<>>, app))
           /\ apps' = IF app # NoApp THEN Append(apps, app) ELSE apps
  /\ UNCHANGED <<system, args, pc, seen_bundle_ids, error, tmp_files,
                 icon_files, yaml_files, stdout_yaml, stdout_json, posts,
                 submission, exit_code>>
  /\ UNCHANGED fn_vars

\* desktop_dirs of LinuxDiscoverer.discover_all.
DesktopDirs ==
  << <<"/", "u", "s", "r", "/", "s", "h", "a", "r", "e", "/", "a", "p", "p",
       "l", "i", "c", "a", "t", "i", "o", "n", "s">>,
      <<"/", "u", "s", "r", "/", "l", "o", "c", "a", "l", "/", "s", "h", "a",
        "r", "e", "/", "a", "p", "p", "l", "i", "c", "a", "t", "i", "o", "n",
        "s">>,
     <<"/", "h", "o", "m", "e", "/", "u", "/", ".", "l", "o", "c", "a", "l",
       "/", "s", "h", "a", "r", "e", "/", "a", "p", "p", "l", "i", "c", "a",
       "t", "i", "o", "n", "s">> >>

DesktopPath(f) == DesktopDirs[f.dir] \o <<"/">> \o f.file \o
    <<".", "d", "e", "s", "k", "t", "o", "p">>

\* What _parse_desktop_file returns for every desktop file of the model.
LinuxParsed == [f \in LinuxDesktopFiles |-> Linux_parse_desktop_file(f)]

\* One iteration of the loop of LinuxDiscoverer.discover_all.
LinuxScan ==
  /\ system = "Linux"
  /\ \E f \in LinuxDesktopFiles :
       LET r == LinuxParsed[f]
       IN  /\ CanScan(DesktopPath(f), ScanPosition(f.dir, FALSE))
           /\ scanned' = Append(scanned,
                Scanned(DesktopPath(f), ScanPosition(f.dir, FALSE), <<>>, r.app))
           /\ IF r.raised # NoError
              THEN /\ Raise(r.raised)
                   /\ UNCHANGED apps
              ELSE /\ apps' = IF r.app # NoApp THEN Append(apps, r.app) ELSE apps
                   /\ UNCHANGED <<pc, error, exit_code>>
  /\ UNCHANGED <<system, args, seen_bundle_ids, tmp_files, icon_files,
                 yaml_files, stdout_yaml, stdout_json, posts, submission>>
  /\ UNCHANGED fn_vars

\* The loops are over: discover_all returns apps.
DiscoverAllReturns ==
  /\ pc = "scan"
  /\ system \in {"Darwin", "Windows", "Linux"}
  /\ pc' = "discovered"
  /\ UNCHANGED <<system, args, apps, seen_bundle_ids, scanned, error,
                 tmp_files, icon_files, yaml_files, stdout_yaml, stdout_json,
                 posts, submission, exit_code>>
  /\ UNCHANGED fn_vars

\* discover_apps after discover_all: the --ai-only filter and the sort.
DiscoverAppsReturns ==
  /\ pc = "discovered"
  /\ apps' = FilterAndSort(apps, args.ai_only)
  /\ pc' = "sorted"
  /\ UNCHANGED <<system, args, seen_bundle_ids, scanned, error, tmp_files,
                 icon_files, yaml_files, stdout_yaml, stdout_json, posts,
                 submission, exit_code>>
  /\ UNCHANGED fn_vars

\* discover_apps on a platform without a collector: it returns [].
UnsupportedPlatform ==
  /\ pc = "scan"
  /\ system \notin {"Darwin", "Windows", "Linux"}
  /\ pc' = "sorted"
  /\ UNCHANGED <<system, args, apps, seen_bundle_ids, scanned, error,
                 tmp_files, icon_files, yaml_files, stdout_yaml, stdout_json,
                 posts, submission, exit_code>>
  /\ UNCHANGED fn_vars

(***************************************************************************)
(* main: the four ways to export the list.                                 *)
(***************************************************************************)
\* The loop of --yaml-dir: every app is written to <app_id>.yaml, in order.
RECURSIVE WriteYamlFiles(_, _, _)
WriteYamlFiles(files, dir, list) ==
  IF list = <<>> THEN files
  ELSE WriteYamlFiles(
         WriteFile(files, dir \o <<"/">> \o Head(list).app_id \o
             <<".", "y", "a", "m", "l">>,
                   to_yaml(Head(list))),
         dir, Tail(list))

ExportYamlDir ==
  /\ pc = "sorted"
  /\ Truthy(args.yaml_dir)
  /\ yaml_files' = WriteYamlFiles(yaml_files, args.yaml_dir, apps)
  /\ pc' = "done"
  /\ exit_code' = 0
  /\ UNCHANGED <<system, args, apps, seen_bundle_ids, scanned, error,
                 tmp_files, icon_files, stdout_yaml, stdout_json, posts,
                 submission>>
  /\ UNCHANGED fn_vars

ExportYaml ==
  /\ pc = "sorted"
  /\ ~Truthy(args.yaml_dir) /\ args.yaml
  /\ stdout_yaml' = [i \in 1..Len(apps) |-> to_yaml(apps[i])]
  /\ pc' = "done"
  /\ exit_code' = 0
  /\ UNCHANGED <<system, args, apps, seen_bundle_ids, scanned, error,
                 tmp_files, icon_files, yaml_files, stdout_json, posts,
                 submission>>
  /\ UNCHANGED fn_vars

\* --submit: the request is built, outside the try, and raises ValueError for
\* a URL without a scheme; then one urlopen, whose exceptions print a
\* diagnostic and exit 1.
ExportSubmit ==
  /\ pc = "sorted"
  /\ ~Truthy(args.yaml_dir) /\ ~args.yaml /\ Truthy(args.submit)
  /\ IF ~HasScheme(args.submit)
     THEN /\ Raise("ValueError")
          /\ UNCHANGED <<posts, submission>>
     ELSE /\ \E outcome \in SubmitOutcomes :
               /\ posts' = Append(posts,
                    [i \in 1..Len(apps) |-> to_dict(apps[i], TRUE)])
               /\ submission' = [outcome |-> outcome,
                                 printed |-> SubmitPrinted(outcome)]
               /\ exit_code' = SubmitExitCode(outcome)
          /\ pc' = "done"
          /\ error' = error
  /\ UNCHANGED <<system, args, apps, seen_bundle_ids, scanned, tmp_files,
                 icon_files, yaml_files, stdout_yaml, stdout_json>>
  /\ UNCHANGED fn_vars

\* The default: the JSON document on standard output.
ExportJson ==
  /\ pc = "sorted"
  /\ ~Truthy(args.yaml_dir) /\ ~args.yaml /\ ~Truthy(args.submit)
  /\ stdout_json' =
       [platform |-> system,
        total_apps |-> Len(apps),
        ai_apps |-> Len(SelectSeq(apps, LAMBDA a : a.is_ai_app)),
        ai_host_apps |-> Len(SelectSeq(apps, LAMBDA a : a.is_ai_host)),
        apps |-> [i \in 1..Len(apps) |-> to_dict(apps[i], TRUE)]]
  /\ pc' = "done"
  /\ exit_code' = 0
  /\ UNCHANGED <<system, args, apps, seen_bundle_ids, scanned, error,
                 tmp_files, icon_files, yaml_files, stdout_yaml, posts,
                 submission>>
  /\ UNCHANGED fn_vars

Next ==
  \/ MacScan
  \/ WinScan
  \/ LinuxScan
  \/ DiscoverAllReturns
  \/ DiscoverAppsReturns
  \/ UnsupportedPlatform
  \/ ExportYamlDir
  \/ ExportYaml
  \/ ExportSubmit
  \/ ExportJson

Spec == Init /\ [][Next]_vars

(***************************************************************************)
(* is_ai_related and generate_app_id on their own.                         *)
(***************************************************************************)
FnInit ==
  /\ RunIdle
  /\ fn_pc = "input"
  /\ fn_name \in NameInputs
  /\ fn_bundle_id \in BundleIdInputs
  /\ fn_result = <<>>

Call_is_ai_related ==
  /\ fn_pc = "input"
  /\ fn_result' = is_ai_related(fn_name, fn_bundle_id)
  /\ fn_pc' = "is_ai_related"
  /\ UNCHANGED <<fn_name, fn_bundle_id>>
  /\ UNCHANGED run_vars

Call_generate_app_id ==
  /\ fn_pc = "input"
  /\ fn_result' = generate_app_id(fn_name)
  /\ fn_pc' = "generate_app_id"
  /\ UNCHANGED <<fn_name, fn_bundle_id>>
  /\ UNCHANGED run_vars

FnNext == Call_is_ai_related \/ Call_generate_app_id

FnSpec == FnInit /\ [][FnNext]_vars

(***************************************************************************)
(* Claims.                                                                 *)
(***************************************************************************)
\* The index in scanned of the first bundle with bundle identifier id.
FirstScanned(id) ==
  CHOOSE k \in 1..Len(scanned) :
    /\ scanned[k].id = id
    /\ \A j \in 1..(k - 1) : scanned[j].id # id

\* C1: the list MacOSDiscoverer.discover_all builds and returns never holds
\* two records with the same bundle identifier, and the record kept for a
\* bundle identifier is the one of the first bundle scanned with it: its
\* install path is the first path seen.
C1_BundleIdsUniqueFirstWins ==
  (system = "Darwin" /\ pc \in {"scan", "discovered"}) =>
    /\ \A i, j \in 1..Len(apps) :
         i # j => apps[i].macos.bundle_id # apps[j].macos.bundle_id
    /\ \A i \in 1..Len(apps) :
         /\ \E k \in 1..Len(scanned) : scanned[k].id = apps[i].macos.bundle_id
         /\ apps[i].path = scanned[FirstScanned(apps[i].macos.bundle_id)].path
         /\ apps[i].macos.paths =
              << scanned[FirstScanned(apps[i].macos.bundle_id)].path >>

\* C1's case: discover_all has returned after scanning two bundles with the
\* same bundle identifier at different paths, and kept one record.
C1_Witness ==
  /\ system = "Darwin"
  /\ pc = "discovered"
  /\ \E i, j \in 1..Len(scanned) :
       /\ i < j
       /\ scanned[i].id = scanned[j].id
       /\ scanned[i].id # <<>>
       /\ scanned[i].path # scanned[j].path
       /\ \E n \in 1..Len(apps) : apps[n].path = scanned[i].path

\* The lower-cased name contains an AI keyword, an AI-host keyword.
NameHasAiKeyword(name) ==
  \E i \in 1..Len(AI_APP_KEYWORDS) : Contains(Lower(name), AI_APP_KEYWORDS[i])

NameHasHostKeyword(name) ==
  \E i \in 1..Len(AI_HOST_APPS) : Contains(Lower(name), AI_HOST_APPS[i])

\* C2: is_ai_related returns one of (true, false), (false, true) and
\* (false, false), never (true, true), and (true, false) whenever the
\* lower-cased name contains an AI keyword, also when it contains an AI-host
\* keyword as well.
C2_ClassificationThreeStates ==
  fn_pc = "is_ai_related" =>
    /\ fn_result \in { <<TRUE, FALSE>>, <<FALSE, TRUE>>, <<FALSE, FALSE>> }
    /\ NameHasAiKeyword(fn_name) => fn_result = <<TRUE, FALSE>>

\* C2's case: a name with an AI keyword and an AI-host keyword was classified.
C2_Witness ==
  /\ fn_pc = "is_ai_related"
  /\ NameHasAiKeyword(fn_name)
  /\ NameHasHostKeyword(fn_name)
  /\ fn_result = <<TRUE, FALSE>>

\* The tier of a record in the final order: AI apps, AI hosts, the others.
Tier(a) == IF a.is_ai_app THEN 0 ELSE IF a.is_ai_host THEN 1 ELSE 2

\* C3: in the list discover_apps returns every AI app precedes every AI-host
\* app, every AI-host app precedes every app that is neither, and inside a
\* tier the names are in case-insensitive lexicographic order; with or
\* without --ai-only.
C3_SortedByTierThenName ==
  pc \in {"sorted", "done"} =>
    \A i, j \in 1..Len(apps) :
      i < j =>
        /\ Tier(apps[i]) <= Tier(apps[j])
        /\ Tier(apps[i]) = Tier(apps[j]) =>
             ~StrLess(Lower(apps[j].name), Lower(apps[i].name))

\* C3's case: discover_apps has returned three records, of more than one
\* tier, two of them in one tier and in an order that differs from the order
\* of their names as written.
C3_Witness ==
  /\ pc = "sorted"
  /\ Len(apps) = 3
  /\ Tier(apps[1]) # Tier(apps[3])
  /\ \E i \in 1..2 :
       /\ Tier(apps[i]) = Tier(apps[i + 1])
       /\ StrLess(apps[i + 1].name, apps[i].name)
       /\ StrLess(Lower(apps[i].name), Lower(apps[i + 1].name))

\* Characters: ASCII letters and digits, and every letter or digit (what
\* str.isalnum accepts), which adds the two letters outside ASCII.
IsAsciiAlnum(c) ==
  \/ IsLowerAlnum(c)
  \/ Ord("A") <= Ord(c) /\ Ord(c) <= Ord("Z")

IsAlnum(c) == IsAsciiAlnum(c) \/ c \in {"U+00C9", "U+00E9"}

\* A slug: not empty, only lowercase ASCII letters, digits and hyphens, no
\* hyphen first or last, no two hyphens in a row.
IsSlug(s) ==
  /\ s # <<>>
  /\ \A i \in 1..Len(s) : IsLowerAlnum(s[i]) \/ s[i] = "-"
  /\ s[1] # "-"
  /\ s[Len(s)] # "-"
  /\ \A i \in 1..(Len(s) - 1) : ~(s[i] = "-" /\ s[i + 1] = "-")

\* C4 as stated: for every name with at least one alphanumeric character,
\* generate_app_id returns a slug.
C4_SlugForAnyAlphanumeric ==
  (fn_pc = "generate_app_id" /\ \E i \in 1..Len(fn_name) : IsAlnum(fn_name[i]))
    => IsSlug(fn_result)

\* C4, amended: for every name with at least one ASCII letter or digit,
\* generate_app_id returns a slug.
C4_SlugForAsciiAlphanumeric ==
  (fn_pc = "generate_app_id" /\ \E i \in 1..Len(fn_name) : IsAsciiAlnum(fn_name[i]))
    => IsSlug(fn_result)

\* C4's case: generate_app_id was called on a name that starts and ends
\* outside [a-z0-9], has a run of two such characters inside, and has an
\* upper-case ASCII letter.
C4_Witness ==
  /\ fn_pc = "generate_app_id"
  /\ Len(fn_name) >= 5
  /\ ~IsAsciiAlnum(fn_name[1])
  /\ ~IsAsciiAlnum(fn_name[Len(fn_name)])
  /\ \E i \in 2..(Len(fn_name) - 2) :
       /\ IsAsciiAlnum(fn_name[i - 1])
       /\ ~IsAsciiAlnum(fn_name[i])
       /\ ~IsAsciiAlnum(fn_name[i + 1])
  /\ \E i \in 1..Len(fn_name) :
       Ord("A") <= Ord(fn_name[i]) /\ Ord(fn_name[i]) <= Ord("Z")
  /\ IsSlug(fn_result)

\* C5: every record a collector emits with is_ai_host true has category
\* dev_tools.
C5_HostsAreDevTools ==
  \A i \in 1..Len(apps) :
    apps[i].is_ai_host => apps[i].category =
        <<"d", "e", "v", "_", "t", "o", "o", "l", "s">>

\* C6: when the code-signing tool fails for a bundle (missing, non-zero exit,
\* timeout) no error propagates: the macOS run does not end in the exception
\* of a missing or timed-out tool.
C6_CodesignFailureNeverRaises ==
  system = "Darwin" =>
    ~(pc = "raised" /\ error \in {"FileNotFoundError", "TimeoutExpired"})

\* C7: the temporary file of an icon extraction no longer exists when
\* _extract_icon has returned, whatever the exit path.
C7_NoTemporaryFileLeft ==
  tmp_files = {}

\* C8: no collector's discover_all raises because of a malformed artifact
\* (an unparseable Info.plist, an unreadable desktop file, a desktop entry
\* with a Name= line and an empty Exec= value): no run ends in the exception
\* of parsing an artifact.
C8_MalformedArtifactNeverRaises ==
  ~(pc = "raised" /\ error = "IndexError")

\* The documents of to_dict a run has produced.
Documents ==
  { posts[i][j] : i \in 1..Len(posts), j \in 1..Len(apps) }
  \cup (IF stdout_json = NoOutput THEN {}
        ELSE { stdout_json.apps[j] : j \in 1..Len(apps) })

\* C9: in a document of to_dict no key carries null, the keys inside a
\* platform signature included, and a signature whose fields are all empty
\* does not appear.
C9_NoNullInDocument ==
  \A doc \in Documents :
    \A k \in DOMAIN doc :
      /\ ~IsNoneAt(k, doc[k])
      /\ k \in SignatureKeys =>
           /\ AnySignatureValue(doc[k])
           /\ \A f \in SignatureFields \ {"paths"} : doc[k][f] # None

\* The file --yaml-dir writes for a record.
YamlFileOf(a) == args.yaml_dir \o <<"/">> \o a.app_id \o
    <<".", "y", "a", "m", "l">>

\* C10: after the loop of --yaml-dir over N apps the directory holds N
\* files, each with the profile of its own app.
C10_OneProfileFilePerApp ==
  (pc = "done" /\ Truthy(args.yaml_dir)) =>
    /\ Cardinality(DOMAIN yaml_files) = Len(apps)
    /\ \A i \in 1..Len(apps) :
         /\ YamlFileOf(apps[i]) \in DOMAIN yaml_files
         /\ yaml_files[YamlFileOf(apps[i])] = to_yaml(apps[i])

\* The run is in the --submit branch of main.
SubmitMode == ~Truthy(args.yaml_dir) /\ ~args.yaml /\ Truthy(args.submit)

\* The exceptions that end a run during the scan, before the export.
ScanErrors == {"FileNotFoundError", "TimeoutExpired", "IndexError"}

\* The run has ended in or after the branch main takes for its arguments.
EndedAfterDiscovery == exit_code # Running /\ error \notin ScanErrors

\* What C11 says of a run that has ended in the --submit branch: one POST
\* was attempted, a 2xx response ends with status zero, anything else with a
\* diagnostic and a non-zero status.
OnePostAndItsStatus ==
  /\ Len(posts) = 1
  /\ submission # NoOutput
  /\ submission.outcome = "2xx" => exit_code = 0
  /\ submission.outcome # "2xx" =>
       exit_code > 0 /\ submission.printed =
           <<"F", "a", "i", "l", "e", "d", " ", "t", "o", " ", "s", "u", "b",
             "m", "i", "t">>

RECURSIVE FirstValueOf(_, _)
FirstValueOf(lines, key) ==
  IF lines = <<>> THEN None
  ELSE IF StartsWith(Head(lines), key) THEN SplitOnce(Head(lines), "=")[2]
  ELSE FirstValueOf(Tail(lines), key)

\* The first word of a value, empty when it has none.
FirstWord(value) ==
  IF value = None \/ SplitWords(value) = <<>> THEN <<>>
  ELSE SplitWords(value)[1]

\* The desktop file was scanned and yielded a record.
YieldedRecord(f) ==
  \E k \in 1..Len(scanned) :
    scanned[k].path = DesktopPath(f) /\ scanned[k].yielded

\* C12: the record of a desktop file has the name of the first Name= line
\* and the executable path of the first Exec= line of the file, whatever
\* lines with these keys come later.
C12_FirstOccurrenceWins ==
  (system = "Linux" /\ pc \in {"scan", "discovered"}) =>
    \A f \in LinuxDesktopFiles :
      YieldedRecord(f) =>
        LET lines == SplitOn(f.content, LF)
            first_name == Strip(FirstValueOf(lines, <<"N", "a", "m", "e", "=">>))
            first_exec == FirstWord(FirstValueOf(lines,
                <<"E", "x", "e", "c", "=">>))
        IN  \E i \in 1..Len(apps) :
              /\ apps[i] = LinuxParsed[f].app
              /\ apps[i].name = first_name
              /\ apps[i].app_id = generate_app_id(first_name)
              /\ apps[i].path = first_exec

\* The denylist of the Windows collector, and an executable whose file name
\* contains one of its words in any case.
WinDenylist == << <<"u", "n", "i", "n", "s", "t", "a", "l", "l">>,
    <<"u", "p", "d", "a", "t", "e">>, <<"s", "e", "t", "u", "p">>,
    <<"i", "n", "s", "t", "a", "l", "l", "e", "r">> >>

WinDenied(exe) ==
  \E w \in 1..Len(WinDenylist) :
    Contains(Lower(ExeName(exe)), WinDenylist[w])

\* The bare file name matches an AI keyword or an AI-host keyword.
WinMatches(exe) == NameHasAiKeyword(exe.stem) \/ NameHasHostKeyword(exe.stem)

WinScannedExe(exe) == \E k \in 1..Len(scanned) : scanned[k].path = ExePath(exe)

WinRetained(exe) == \E i \in 1..Len(apps) : apps[i].path = ExePath(exe)

\* C13: the Windows collector retains a scanned executable exactly when its
\* file name contains no denylist word and its bare name matches an AI or
\* AI-host keyword, and every record of a Windows run has is_ai_app or
\* is_ai_host true.
C13_WindowsRetainsExactlyMatches ==
  system = "Windows" =>
    /\ pc \in {"scan", "discovered"} =>
         \A exe \in WinExes :
           WinScannedExe(exe) =>
             (WinRetained(exe) <=> (~WinDenied(exe) /\ WinMatches(exe)))
    /\ \A i \in 1..Len(apps) : apps[i].is_ai_app \/ apps[i].is_ai_host

\* C13's case: discover_all has returned after scanning an executable it
\* kept, one that matches a keyword but is on the denylist, and one that
\* matches no keyword.
C13_Witness ==
  /\ system = "Windows"
  /\ pc = "discovered"
  /\ \E kept, denied, plain \in WinExes :
       /\ WinScannedExe(kept) /\ WinRetained(kept)
       /\ WinScannedExe(denied) /\ WinDenied(denied) /\ WinMatches(denied)
       /\ ~WinRetained(denied)
       /\ WinScannedExe(plain) /\ ~WinDenied(plain) /\ ~WinMatches(plain)
       /\ ~WinRetained(plain)
====
